---------------------------- MODULE Spec2Model ----------------------------
(***************************************************************************)
(* A model of film_map (src/main.py): the title parser (find_year,         *)
(* find_name), the listing loader (read_file), the location resolver       *)
(* (find_latitude, find_longitude, find_coordinates), the distance engine  *)
(* (find_distance, count_distance_to_point, find_nearest) and the query    *)
(* pipeline of main().                                                     *)
(*                                                                         *)
(* Python values are represented as follows.                               *)
(*   str        a sequence of one-character strings                        *)
(*   optional   None is the empty tuple, a present value v is <<v>>, so    *)
(*              that None, the empty string and 0 are three different      *)
(*              values                                                     *)
(*   DataFrame  a record [columns, rows]: the set of column names and the  *)
(*              sequence of rows, each row a record holding the pandas     *)
(*              index label (idx) and one optional value per column        *)
(***************************************************************************)
EXTENDS Integers, Sequences, FiniteSets

VARIABLES
    pc,             \* the position of the control flow, per specification
    raw,            \* title parser: the raw title passed as `line`
    name,           \* title parser: what find_name returned
    year,           \* title parser: what find_year returned
    called,         \* title parser: the functions that have returned
    file,           \* the data rows of the listing file, after the preamble
    films_data,     \* the DataFrame main() and read_file() hold in films_data
    input,          \* what the user typed: [year, user_lan, user_lon, film]
    cursor,         \* Series.apply: the position of the row being processed
    lookups,        \* history: what the provider answered, per row and column
    last_gap,       \* the time between the two latest provider calls
    nearest_films,  \* main(): the DataFrame find_nearest returned
    layers,         \* main(): the markers of the nearest and the film layer
    frames,         \* query calls: the DataFrame objects alive, by identity
    call            \* query calls: the latest call [op, arg, before, result]

vars == <<pc, raw, name, year, called, file, films_data, input, cursor,
          lookups, last_gap, nearest_films, layers, frames, call>>

-----------------------------------------------------------------------------
(* Bounds of the model.                                                    *)

MaxLen == 4         \* the longest free-form raw title
MaxName == 3        \* the longest Name of a title of the form Name (YYYY)
MaxRows == 3        \* the most data rows of a listing file (loader)
MaxFilms == 2       \* the most data rows of the listing file main() reads
MaxElapsed == 1     \* the longest time between two lookups, in seconds
MaxNear == 11       \* the most records handed to find_nearest alone
MaxQuery == 2       \* the most records of a collection handed to a query
MaxFrames == 2      \* the most DataFrame objects alive during the queries

-----------------------------------------------------------------------------
(* Python values.                                                          *)

None == <<>>
Some(v) == <<v>>
Val(o) == o[1]

Quote == "\""
Bracket == "("

\* The characters titles are drawn from, and those of a year segment.
Alphabet == {"a", Quote, Bracket, " "}
YearChars == {"2", "/"}

RECURSIVE Strings(_, _)
\* The strings over the characters cs of length n.
Strings(cs, n) ==
    IF n = 0 THEN {<<>>}
    ELSE {Append(s, c) : s \in Strings(cs, n - 1), c \in cs}

StringsUpTo(cs, n) == UNION {Strings(cs, k) : k \in 0..n}

\* A slice bound of Python: a negative index counts from the end, and a bound
\* outside the string is clamped to it.
Clamp(k, n) ==
    IF k < 0 THEN (IF k + n < 0 THEN 0 ELSE k + n)
    ELSE IF k > n THEN n ELSE k

\* s[lo:hi] of Python, lo and hi 0-based.
Slice(s, lo, hi) ==
    LET a == Clamp(lo, Len(s))
        b == Clamp(hi, Len(s))
    IN  IF a >= b THEN <<>> ELSE SubSeq(s, a + 1, b)

\* s[k] of Python is defined (no IndexError) for -len(s) <= k < len(s).
HasItem(s, k) == -Len(s) <= k /\ k < Len(s)
Item(s, k) == IF k < 0 THEN s[Len(s) + k + 1] ELSE s[k + 1]

Found(s, c) == \E k \in 1..Len(s) : s[k] = c

\* s.index(c) of Python, 0-based; it raises ValueError unless Found(s, c).
Index(s, c) == (CHOOSE k \in 1..Len(s) : s[k] = c /\ \A j \in 1..(k - 1) : s[j] # c) - 1

-----------------------------------------------------------------------------
(* Title parser.                                                           *)

find_year(line) ==
    IF ~Found(line, Bracket) THEN None              \* except ValueError
    ELSE LET bracket == Index(line, Bracket)
         IN  Some(Slice(line, bracket + 1, bracket + 5))

\* find_name keeping the character before the bracket.
find_name_keep_space(line) ==
    IF ~Found(line, Bracket) THEN None
    ELSE LET bracket == Index(line, Bracket)
             cut == Slice(line, 0, bracket)
         IN  IF ~HasItem(cut, 0) THEN None
             ELSE IF Item(cut, 0) = Quote /\ Item(cut, -1) = Quote
                  THEN Some(Slice(cut, 1, -1))
                  ELSE Some(cut)

find_name(line) ==
    IF ~Found(line, Bracket) THEN None              \* except ValueError
    ELSE LET bracket == Index(line, Bracket)
             cut == Slice(line, 0, bracket - 1)
         IN  IF ~HasItem(cut, 0) THEN None          \* except IndexError
             ELSE IF Item(cut, 0) = Quote /\ Item(cut, -1) = Quote
                  THEN Some(Slice(cut, 1, -1))
                  ELSE Some(cut)

\* The raw title `Name (YYYY)`.
Form(n, y) == n \o <<" ", Bracket>> \o y \o <<")">>

Names == StringsUpTo(Alphabet, MaxName)
Years == Strings(YearChars, 4)
FormTitles == {Form(n, y) : n \in Names, y \in Years}
RawTitles == StringsUpTo(Alphabet, MaxLen) \cup FormTitles


-----------------------------------------------------------------------------
(* pandas.DataFrame.                                                       *)

Range(s) == {s[k] : k \in 1..Len(s)}

\* frame[column] = values: the column is added, or overwritten, in place.
SetColumn(frame, column, values) ==
    [columns |-> frame.columns \cup {column},
     rows |-> [k \in 1..Len(frame.rows) |->
                 [f \in DOMAIN frame.rows[k] \cup {column} |->
                     IF f = column THEN values[k] ELSE frame.rows[k][f]]]]

\* frame.drop(columns = [column])
DropColumn(frame, column) ==
    [columns |-> frame.columns \ {column},
     rows |-> [k \in 1..Len(frame.rows) |->
                 [f \in DOMAIN frame.rows[k] \ {column} |-> frame.rows[k][f]]]]

\* frame[column]
Column(frame, column) == [k \in 1..Len(frame.rows) |-> frame.rows[k][column]]

\* frame[mask], mask a sequence of booleans, one per row: the rows whose mask
\* is true, in order, as a new frame.
Where(frame, mask) ==
    LET RECURSIVE Kept(_)
        Kept(k) == IF k = 0 THEN <<>>
                   ELSE IF mask[k] THEN Append(Kept(k - 1), frame.rows[k])
                        ELSE Kept(k - 1)
    IN  [columns |-> frame.columns, rows |-> Kept(Len(frame.rows))]

\* Two rows agree on the columns cs (None equals None, as for pandas).
SameOn(r1, r2, cs) == \A c \in cs : r1[c] = r2[c]

\* drop_duplicates keeping every row.
drop_duplicates_none(frame) == frame

\* frame.drop_duplicates(): a row is dropped when an earlier row agrees with it
\* on every column (the index label is no column).
drop_duplicates(frame) ==
    Where(frame, [k \in 1..Len(frame.rows) |->
                    \A j \in 1..(k - 1) :
                        ~SameOn(frame.rows[j], frame.rows[k], frame.columns)])

-----------------------------------------------------------------------------
(* Listing loader.                                                         *)

\* pd.read_csv(path, sep, skiprows = 14, names = [Name, Location, Info]): one
\* row per data line, labelled 0, 1, ... in file order.
read_csv(lines) ==
    [columns |-> {"Name", "Location", "Info"},
     rows |-> [k \in 1..Len(lines) |->
                 [idx |-> k - 1, Name |-> lines[k].Name,
                  Location |-> lines[k].Location, Info |-> lines[k].Info]]]

read_file(lines) ==
    LET csv == DropColumn(read_csv(lines), "Info")
        names == Column(csv, "Name")
        with_year == SetColumn(csv, "Year",
                        [k \in DOMAIN names |-> find_year(names[k])])
        with_name == SetColumn(with_year, "Name",
                        [k \in DOMAIN names |-> find_name(names[k])])
    IN  drop_duplicates(with_name)

\* The titles, locations and notes the loader's data lines are drawn from.
TitleA2001 == <<"a", " ", "(", "2", "0", "0", "1", ")">>
TitleA2002 == <<"a", " ", "(", "2", "0", "0", "2", ")">>
TitleB2001 == <<"b", " ", "(", "2", "0", "0", "1", ")">>
TitleQuotedA2001 == <<Quote, "a", Quote, " ", "(", "2", "0", "0", "1", ")">>
TitleNoYear == <<"a">>

LoaderLines ==
    [Name : {TitleA2001, TitleA2002, TitleQuotedA2001, TitleNoYear},
     Location : {"England, UK", "USA"},
     Info : {"", "(studio)"}]

RECURSIVE SeqsUpTo(_, _)
\* The sequences over S of length at most n.
SeqsUpTo(S, n) ==
    IF n = 0 THEN {<<>>}
    ELSE LET shorter == SeqsUpTo(S, n - 1)
         IN  shorter \cup {Append(s, x) : s \in shorter, x \in S}

EmptyFrame == [columns |-> {}, rows |-> <<>>]
NoInput == [year |-> <<>>, user_lan |-> 0, user_lon |-> 0, film |-> <<>>]
NoLayers == [user |-> <<>>, nearest |-> <<>>, film |-> <<>>]
NoCall == [op |-> "none", arg |-> 0, before |-> EmptyFrame, result |-> 0]

-----------------------------------------------------------------------------
(* SpecParser: find_year and find_name applied to a raw title.             *)

parser_vars == <<raw, name, year, called>>
loader_vars == <<file>>
main_vars == <<films_data, input, cursor, lookups, last_gap, nearest_films, layers>>
query_vars == <<frames, call>>

InitRest ==
    /\ films_data = EmptyFrame
    /\ input = NoInput
    /\ cursor = 0
    /\ lookups = <<>>
    /\ last_gap = None
    /\ nearest_films = EmptyFrame
    /\ layers = NoLayers

InitParser ==
    /\ pc = "parser"
    /\ raw \in RawTitles
    /\ name = None
    /\ year = None
    /\ called = {}
    /\ file = <<>>
    /\ InitRest
    /\ frames = <<>>
    /\ call = NoCall

FindYear ==
    /\ pc = "parser"
    /\ "find_year" \notin called
    /\ year' = find_year(raw)
    /\ called' = called \cup {"find_year"}
    /\ UNCHANGED <<pc, raw, name, loader_vars, main_vars, query_vars>>

FindName ==
    /\ pc = "parser"
    /\ "find_name" \notin called
    /\ name' = find_name(raw)
    /\ called' = called \cup {"find_name"}
    /\ UNCHANGED <<pc, raw, year, loader_vars, main_vars, query_vars>>

NextParser == FindYear \/ FindName

SpecParser == InitParser /\ [][NextParser]_vars

-----------------------------------------------------------------------------
(* SpecLoader: read_file applied to the data lines of a listing file.      *)

InitLoader ==
    /\ pc = "read_file"
    /\ raw = <<>>
    /\ name = None
    /\ year = None
    /\ called = {}
    /\ file \in SeqsUpTo(LoaderLines, MaxRows)
    /\ InitRest
    /\ frames = <<>>
    /\ call = NoCall

ReadFile ==
    /\ pc = "read_file"
    /\ films_data' = read_file(file)
    /\ pc' = "loaded"
    /\ UNCHANGED <<parser_vars, loader_vars, input, cursor, lookups, last_gap,
                   nearest_films, layers, query_vars>>

NextLoader == ReadFile

SpecLoader == InitLoader /\ [][NextLoader]_vars

-----------------------------------------------------------------------------
(* Distance engine.  Coordinates are whole degrees, multiples of 90, and   *)
(* the trigonometric functions are tabulated on them; a distance is in     *)
(* whole metres.                                                           *)

radius == 6371000
PiNum == 355            \* math.pi, as the fraction PiNum / PiDen
PiDen == 113

Abs(x) == IF x < 0 THEN -x ELSE x

\* 2 * sin(delta / 2) ** 2, delta in degrees.
TwiceSinSqHalf(delta) ==
    CASE Abs(delta) = 0 -> 0
      [] Abs(delta) = 90 -> 1
      [] Abs(delta) = 180 -> 2

\* cos(lat), lat in degrees.
Cos(lat) ==
    CASE Abs(lat) = 0 -> 1
      [] Abs(lat) = 90 -> 0

\* 2 * atan2(sqrt(a), sqrt(1 - a)) in quarter turns (pi / 2), given 2 * a.
CentralAngle(twice_a) ==
    CASE twice_a = 0 -> 0
      [] twice_a = 1 -> 1
      [] twice_a = 2 -> 2

find_distance(lat1, lon1, lat2, lon2) ==
    LET delta_lat == lat2 - lat1
        delta_lon == lon2 - lon1
        haversine == TwiceSinSqHalf(delta_lat)
                     + Cos(lat1) * Cos(lat2) * TwiceSinSqHalf(delta_lon)
    IN  ((radius \div PiDen) * PiNum * CentralAngle(haversine)) \div 2

\* frame.sort_values(by = [column]): ascending; rows of equal value keep their
\* order (numpy's quicksort sorts short arrays by insertion).
RECURSIVE SortValues(_, _)
SortValues(rows, column) ==
    IF rows = <<>> THEN <<>>
    ELSE LET sorted == SortValues(SubSeq(rows, 1, Len(rows) - 1), column)
             last == rows[Len(rows)]
             before == SelectSeq(sorted,
                          LAMBDA r : Val(r[column]) <= Val(last[column]))
             after == SelectSeq(sorted,
                          LAMBDA r : Val(r[column]) > Val(last[column]))
         IN  before \o <<last>> \o after

\* count_distance_to_point that also sorts the frame by distance, in place.
count_distance_sorting(lat, lon, films) ==
    [columns |-> films.columns \cup {"Distance"},
     rows |-> SortValues(
        [k \in 1..Len(films.rows) |->
            [f \in DOMAIN films.rows[k] \cup {"Distance"} |->
                IF f = "Distance"
                THEN Some(find_distance(Val(films.rows[k].Latitude),
                                        Val(films.rows[k].Longitude), lat, lon))
                ELSE films.rows[k][f]]], "Distance")]

\* The frame passed in gains the column Distance, and is the frame returned.
count_distance_to_point(lat, lon, films) ==
    SetColumn(films, "Distance",
        [k \in 1..Len(films.rows) |->
            Some(find_distance(Val(films.rows[k].Latitude),
                               Val(films.rows[k].Longitude), lat, lon))])

\* Of a frame without rows DataFrame.apply(..., axis = 1) returns, depending
\* on the version of pandas, an empty Series or a copy of the frame, and the
\* assignment of a frame to the one column Distance raises ValueError: both
\* outcomes are kept, the column set and the exception.
ApplyMayRaise(films) == films.rows = <<>>

\* frame.head(n)
HeadRows(frame, n) ==
    [columns |-> frame.columns,
     rows |-> SubSeq(frame.rows, 1, IF Len(frame.rows) < n THEN Len(frame.rows) ELSE n)]

NearestCount == 10

\* find_nearest without the sort.
find_nearest_unsorted(films) == HeadRows(films, NearestCount)

find_nearest(films) ==
    HeadRows([columns |-> films.columns,
          rows |-> SortValues(films.rows, "Distance")], NearestCount)

-----------------------------------------------------------------------------
(* Query pipeline.                                                         *)

choose_year(y, films) ==
    Where(films, [k \in 1..Len(films.rows) |-> films.rows[k].Year = Some(y)])

find_locations_of_film(film, films) ==
    Where(films, [k \in 1..Len(films.rows) |-> films.rows[k].Name = Some(film)])

create_layer_of_user_location(user_lan, user_lon) ==
    <<[location |-> <<Some(user_lan), Some(user_lon)>>, popup |-> "You are here"]>>

create_layer_of_nearest(points) ==
    [k \in 1..Len(points.rows) |->
        [location |-> <<points.rows[k].Latitude, points.rows[k].Longitude>>,
         popup |-> points.rows[k].Name]]

create_layer_of_film_location(film, points) ==
    [k \in 1..Len(points.rows) |->
        [location |-> <<points.rows[k].Latitude, points.rows[k].Longitude>>,
         popup |-> points.rows[k].Location]]

-----------------------------------------------------------------------------
(* Location resolver.                                                      *)

\* What one call of the provider does: it raises GeocoderUnavailable, or it
\* returns None (no match), or it returns a location.
Places == {[latitude |-> 0, longitude |-> 0],
           [latitude |-> 0, longitude |-> 90],
           [latitude |-> 90, longitude |-> 0]}
Unavailable == [raises |-> TRUE, location |-> None]
NoMatch == [raises |-> FALSE, location |-> None]
Match(place) == [raises |-> FALSE, location |-> Some(place)]
Answers == {Unavailable, NoMatch} \cup {Match(p) : p \in Places}

min_delay_seconds == 1

\* The time between the previous call of the provider and this one, the
\* program being ready for it `elapsed` seconds after the previous one:
\* geocode, the RateLimiter, sleeps until min_delay_seconds have passed;
\* geolocator.geocode sends the request at once.
geocode(elapsed) ==
    IF elapsed < min_delay_seconds THEN min_delay_seconds ELSE elapsed
geolocator_geocode(elapsed) == elapsed

\* find_latitude with 0 standing for a failed lookup.
find_latitude_or_zero(answer) ==
    IF answer.raises \/ answer.location = None THEN Some(0)
    ELSE Some(Val(answer.location).latitude)

find_latitude(answer) ==
    IF answer.raises THEN None                      \* except GeocoderUnavailable
    ELSE IF answer.location = None THEN None        \* except AttributeError
    ELSE Some(Val(answer.location).latitude)

find_longitude(answer) ==
    IF answer.raises THEN None
    ELSE IF answer.location = None THEN None
    ELSE Some(Val(answer.location).longitude)

\* The provider's latest answer to the lookup of `column` for the row `idx`.
Answer(log, column, idx) ==
    LET ks == {k \in 1..Len(log) : log[k].column = column /\ log[k].row = idx}
    IN  log[CHOOSE k \in ks : \A j \in ks : j <= k].answer

\* The last two statements of find_coordinates.
NotNa(films) ==
    LET with_latitude ==
            Where(films, [k \in 1..Len(films.rows) |->
                             films.rows[k].Latitude # None])
    IN  Where(with_latitude, [k \in 1..Len(with_latitude.rows) |->
                                 with_latitude.rows[k].Longitude # None])

-----------------------------------------------------------------------------
(* Spec: main(), one step per statement and per lookup.                    *)

Year2001 == <<"2", "0", "0", "1">>
Year2002 == <<"2", "0", "0", "2">>

MainLines ==
    [Name : {TitleA2001, TitleB2001, TitleA2002},
     Location : {"England, UK"},
     Info : {""}]

Inputs ==
    [year : {Year2001, Year2002}, user_lan : {0}, user_lon : {0, 90},
     film : {<<"a">>, <<"b">>}]

Init ==
    /\ pc = "read_file"
    /\ raw = <<>>
    /\ name = None
    /\ year = None
    /\ called = {}
    /\ file \in SeqsUpTo(MainLines, MaxFilms)
    /\ InitRest
    /\ frames = <<>>
    /\ call = NoCall

\* The three calls of input(), and the two of float().
Input ==
    /\ pc = "loaded"
    /\ input' \in Inputs
    /\ pc' = "choose_year"
    /\ UNCHANGED <<parser_vars, loader_vars, films_data, cursor, lookups,
                   last_gap, nearest_films, layers, query_vars>>

ChooseYear ==
    /\ pc = "choose_year"
    /\ films_data' = choose_year(input.year, films_data)
    /\ cursor' = 1
    /\ pc' = "find_latitude"
    /\ UNCHANGED <<parser_vars, loader_vars, input, lookups, last_gap,
                   nearest_films, layers, query_vars>>

\* One call of the provider for the row under the cursor.
Lookup(column, answer, elapsed) ==
    /\ lookups' = Append(lookups, [column |-> column,
                                   row |-> films_data.rows[cursor].idx,
                                   answer |-> answer])
    /\ last_gap' = IF lookups = <<>> THEN None
                   ELSE Some(geolocator_geocode(elapsed))

\* find_latitude that looks a location up once more when the lookup failed.
FindLatitudeRetrying ==
    /\ pc = "find_latitude"
    /\ cursor <= Len(films_data.rows)
    /\ \E answer \in Answers, elapsed \in 0..MaxElapsed :
          /\ Lookup("Latitude", answer, elapsed)
          /\ cursor' =
                IF /\ find_latitude(answer) = None
                   /\ ~\E k \in 1..Len(lookups) :
                          /\ lookups[k].column = "Latitude"
                          /\ lookups[k].row = films_data.rows[cursor].idx
                THEN cursor
                ELSE cursor + 1
    /\ UNCHANGED <<pc, parser_vars, loader_vars, films_data, input,
                   nearest_films, layers, query_vars>>

\* find_latitude, applied to the location of the row under the cursor.
FindLatitude ==
    /\ pc = "find_latitude"
    /\ cursor <= Len(films_data.rows)
    /\ \E answer \in Answers, elapsed \in 0..MaxElapsed :
          Lookup("Latitude", answer, elapsed)
    /\ cursor' = cursor + 1
    /\ UNCHANGED <<pc, parser_vars, loader_vars, films_data, input,
                   nearest_films, layers, query_vars>>

\* films_data['Latitude'] = ..., every row having been looked up.
SetLatitude ==
    /\ pc = "find_latitude"
    /\ cursor > Len(films_data.rows)
    /\ films_data' = SetColumn(films_data, "Latitude",
          [k \in 1..Len(films_data.rows) |->
              find_latitude(Answer(lookups, "Latitude", films_data.rows[k].idx))])
    /\ cursor' = 1
    /\ pc' = "find_longitude"
    /\ UNCHANGED <<parser_vars, loader_vars, input, lookups, last_gap,
                   nearest_films, layers, query_vars>>

\* find_longitude, applied to the location of the row under the cursor.
FindLongitude ==
    /\ pc = "find_longitude"
    /\ cursor <= Len(films_data.rows)
    /\ \E answer \in Answers, elapsed \in 0..MaxElapsed :
          Lookup("Longitude", answer, elapsed)
    /\ cursor' = cursor + 1
    /\ UNCHANGED <<pc, parser_vars, loader_vars, films_data, input,
                   nearest_films, layers, query_vars>>

\* films_data['Longitude'] = ..., the two notna() filters, and the return of
\* find_coordinates.
SetLongitude ==
    /\ pc = "find_longitude"
    /\ cursor > Len(films_data.rows)
    /\ films_data' =
          NotNa(SetColumn(films_data, "Longitude",
                   [k \in 1..Len(films_data.rows) |->
                       find_longitude(Answer(lookups, "Longitude",
                                             films_data.rows[k].idx))]))
    /\ cursor' = 0
    /\ pc' = "count_distance"
    /\ UNCHANGED <<parser_vars, loader_vars, input, lookups, last_gap,
                   nearest_films, layers, query_vars>>

\* The user's layer, and count_distance_to_point.
CountDistance ==
    /\ pc = "count_distance"
    /\ layers' = [layers EXCEPT !.user =
                     create_layer_of_user_location(input.user_lan, input.user_lon)]
    /\ \/ /\ films_data' = count_distance_to_point(input.user_lan,
                                                   input.user_lon, films_data)
          /\ pc' = "find_nearest"
       \/ /\ ApplyMayRaise(films_data)
          /\ films_data' = films_data
          /\ pc' = "raised"
    /\ UNCHANGED <<parser_vars, loader_vars, input, cursor, lookups, last_gap,
                   nearest_films, query_vars>>

\* find_nearest and create_layer_of_nearest.
FindNearest ==
    /\ pc = "find_nearest"
    /\ nearest_films' = find_nearest(films_data)
    /\ layers' = [layers EXCEPT !.nearest =
                     create_layer_of_nearest(find_nearest(films_data))]
    /\ pc' = "find_locations_of_film"
    /\ UNCHANGED <<parser_vars, loader_vars, films_data, input, cursor,
                   lookups, last_gap, query_vars>>

\* find_locations_of_film and create_layer_of_film_location.
FilmLocations ==
    /\ pc = "find_locations_of_film"
    /\ layers' = [layers EXCEPT !.film =
                     create_layer_of_film_location(input.film,
                         find_locations_of_film(input.film, films_data))]
    /\ pc' = "create_map"
    /\ UNCHANGED <<parser_vars, loader_vars, films_data, input, cursor,
                   lookups, last_gap, nearest_films, query_vars>>

Next ==
    \/ ReadFile
    \/ Input
    \/ ChooseYear
    \/ FindLatitude
    \/ SetLatitude
    \/ FindLongitude
    \/ SetLongitude
    \/ CountDistance
    \/ FindNearest
    \/ FilmLocations

Spec == Init /\ [][Next]_vars

-----------------------------------------------------------------------------
(* SpecNearest: find_nearest applied to a collection of records that have  *)
(* a distance.                                                             *)

\* The distances of the points of the grid from a point of it.
Distances == {find_distance(0, 0, 0, 0), find_distance(0, 0, 90, 0)}

\* The frames of at most n rows, labelled 0, 1, ..., drawn from Rows.
Frames(columns, Rows, n) ==
    {[columns |-> columns,
      rows |-> [k \in 1..Len(rs) |->
                  [f \in DOMAIN rs[k] \cup {"idx"} |->
                      IF f = "idx" THEN k - 1 ELSE rs[k][f]]]] :
        rs \in SeqsUpTo(Rows, n)}

InitNearest ==
    /\ pc = "nearest"
    /\ raw = <<>>
    /\ name = None
    /\ year = None
    /\ called = {}
    /\ file = <<>>
    /\ films_data \in Frames({"Distance"},
                             [Distance : {Some(d) : d \in Distances}], MaxNear)
    /\ input = NoInput
    /\ cursor = 0
    /\ lookups = <<>>
    /\ last_gap = None
    /\ nearest_films = EmptyFrame
    /\ layers = NoLayers
    /\ frames = <<>>
    /\ call = NoCall

Nearest ==
    /\ pc = "nearest"
    /\ nearest_films' = find_nearest(films_data)
    /\ pc' = "nearest_found"
    /\ UNCHANGED <<parser_vars, loader_vars, films_data, input, cursor,
                   lookups, last_gap, layers, query_vars>>

NextNearest == Nearest

SpecNearest == InitNearest /\ [][NextNearest]_vars

-----------------------------------------------------------------------------
(* SpecQuery: the query operations, called in any order on the DataFrame   *)
(* objects alive.  frames[id] is the content of the object id; a call      *)
(* returns the object it was given or a new one.                           *)

QueryRow(film, y, lat, lon) ==
    [Name |-> Some(film), Location |-> "England, UK", Year |-> Some(y),
     Latitude |-> Some(lat), Longitude |-> Some(lon)]

QueryRows ==
    {QueryRow(<<"a">>, Year2001, 0, 0), QueryRow(<<"b">>, Year2001, 90, 0),
     QueryRow(<<"a">>, Year2002, 0, 90), QueryRow(<<"b">>, Year2002, 0, 0)}

QueryColumns == {"Name", "Location", "Year", "Latitude", "Longitude"}

InitQuery ==
    /\ pc = "query"
    /\ raw = <<>>
    /\ name = None
    /\ year = None
    /\ called = {}
    /\ file = <<>>
    /\ InitRest
    /\ \E frame \in Frames(QueryColumns, QueryRows, MaxQuery) :
          frames = <<frame>>
    /\ call = NoCall

\* The call op(arg) returned a new object, of the content `frame`.
ReturnsNew(op, arg, frame) ==
    /\ Len(frames) < MaxFrames
    /\ frames' = Append(frames, frame)
    /\ call' = [op |-> op, arg |-> arg, before |-> frames[arg],
                result |-> Len(frames) + 1]

\* The call op(arg) left `frame` in the object it was given, and returned it.
ReturnsArgument(op, arg, frame) ==
    /\ frames' = [frames EXCEPT ![arg] = frame]
    /\ call' = [op |-> op, arg |-> arg, before |-> frames[arg], result |-> arg]

\* The call op(arg) raised, and left the object it was given as it was.
Raises(op, arg) ==
    /\ frames' = frames
    /\ call' = [op |-> op, arg |-> arg, before |-> frames[arg], result |-> 0]

CallChooseYear ==
    /\ pc = "query"
    /\ \E arg \in DOMAIN frames, y \in {Year2001, Year2002} :
          ReturnsNew("choose_year", arg, choose_year(y, frames[arg]))
    /\ UNCHANGED <<pc, parser_vars, loader_vars, main_vars>>

CallCountDistance ==
    /\ pc = "query"
    /\ \E arg \in DOMAIN frames, lat \in {0}, lon \in {0, 90} :
          \/ ReturnsArgument("count_distance_to_point", arg,
                             count_distance_to_point(lat, lon, frames[arg]))
          \/ /\ ApplyMayRaise(frames[arg])
             /\ Raises("count_distance_to_point", arg)
    /\ UNCHANGED <<pc, parser_vars, loader_vars, main_vars>>

\* find_nearest raises KeyError on a frame without the column Distance.
CallFindNearest ==
    /\ pc = "query"
    /\ \E arg \in DOMAIN frames :
          /\ "Distance" \in frames[arg].columns
          /\ ReturnsNew("find_nearest", arg, find_nearest(frames[arg]))
    /\ UNCHANGED <<pc, parser_vars, loader_vars, main_vars>>

CallFindLocationsOfFilm ==
    /\ pc = "query"
    /\ \E arg \in DOMAIN frames, film \in {<<"a">>, <<"b">>} :
          ReturnsNew("find_locations_of_film", arg,
                     find_locations_of_film(film, frames[arg]))
    /\ UNCHANGED <<pc, parser_vars, loader_vars, main_vars>>

NextQuery ==
    \/ CallChooseYear
    \/ CallCountDistance
    \/ CallFindNearest
    \/ CallFindLocationsOfFilm

SpecQuery == InitQuery /\ [][NextQuery]_vars

-----------------------------------------------------------------------------
(* Claims about the title parser, under SpecParser.                        *)

BothCalled == called = {"find_year", "find_name"}

\* The text of the raw title before its first bracket.
BeforeBracket(line) == Slice(line, 0, Index(line, Bracket))

\* A Name that is not empty, holds no bracket and is not quote-delimited.
PlainName(n) ==
    /\ n # <<>>
    /\ ~Found(n, Bracket)
    /\ ~(n[1] = Quote /\ n[Len(n)] = Quote)

\* The raw title `line` has the form `Name (YYYY)`: its parts.
IsForm(line) ==
    /\ Len(line) >= 7
    /\ line[Len(line) - 6] = " "
    /\ line[Len(line) - 5] = Bracket
    /\ line[Len(line)] = ")"
NameOf(line) == SubSeq(line, 1, Len(line) - 7)
YearOf(line) == SubSeq(line, Len(line) - 4, Len(line) - 1)

\* C1 as claimed: for every raw title of the form `Name (YYYY)`, find_name
\* returns Name exactly and find_year returns YYYY. Name is read here in the
\* claim's favour: of two characters or more (so neither empty nor a lone
\* quote), and without a `(` of its own.
C1_NameAndYearOfAnyForm ==
    /\ IsForm(raw)
    /\ Len(NameOf(raw)) >= 2
    /\ ~Found(NameOf(raw), Bracket)
    => /\ "find_name" \in called => name = Some(NameOf(raw))
       /\ "find_year" \in called => year = Some(YearOf(raw))

\* C1 as amended: for every raw title of the form `Name (YYYY)` whose Name is
\* not empty, holds no `(` and is not both started and ended by a double
\* quote, find_name returns Name exactly and find_year returns YYYY.
C1_NameAndYearOfPlainForm ==
    IsForm(raw) /\ PlainName(NameOf(raw)) =>
        /\ "find_name" \in called => name = Some(NameOf(raw))
        /\ "find_year" \in called => year = Some(YearOf(raw))

\* A title `Name (YYYY)` with a plain Name of two characters or more has been
\* parsed by both functions.
C1_Witness ==
    /\ BothCalled
    /\ raw \in FormTitles
    /\ IsForm(raw)
    /\ PlainName(NameOf(raw))
    /\ Len(NameOf(raw)) >= 2
    /\ name = Some(NameOf(raw))
    /\ year = Some(YearOf(raw))

\* C6 as claimed: find_name returns absent when the title holds no `(` or
\* when the text before the first `(` is empty, and otherwise a non-empty
\* name; it never returns the empty string.
C6_NameAbsentOrNonEmpty ==
    "find_name" \in called =>
        IF ~Found(raw, Bracket) \/ BeforeBracket(raw) = <<>>
        THEN name = None
        ELSE name # None /\ Val(name) # <<>>

\* C8 as claimed: find_year returns absent exactly when the title holds no
\* `(`, and otherwise a string of exactly 4 characters, the 4 characters that
\* follow the first `(`.
C8_YearAbsentOrFourChars ==
    "find_year" \in called =>
        IF ~Found(raw, Bracket)
        THEN year = None
        ELSE /\ year # None
             /\ Len(Val(year)) = 4
             /\ Len(raw) >= Index(raw, Bracket) + 5
             /\ \A k \in 1..4 : Val(year)[k] = raw[Index(raw, Bracket) + 1 + k]

-----------------------------------------------------------------------------
(* Claims about the listing loader, under SpecLoader.                      *)

Loaded == pc = "loaded"

\* What the title parser makes of data line k of the file.
Parsed(k) ==
    [Name |-> find_name(file[k].Name), Location |-> file[k].Location,
     Year |-> find_year(file[k].Name)]

C5_NoAbsentNameLoaded ==
    Loaded => \A r \in Range(films_data.rows) : r.Name # None

-----------------------------------------------------------------------------
(* Claims about the location resolver and main(), under Spec.          *)

\* The collection main() hands to find_coordinates.
Selected == choose_year(input.year, read_file(file))

Resolving == pc \in {"find_latitude", "find_longitude"}
Resolved == pc \in {"count_distance", "find_nearest", "find_locations_of_film",
                    "create_map"}

Failed(answer) == answer.raises \/ answer.location = None

\* Both lookups of the row idx returned a location.
Matched(idx) ==
    /\ ~Failed(Answer(lookups, "Latitude", idx))
    /\ ~Failed(Answer(lookups, "Longitude", idx))

\* The marker m stands at the coordinates of a record of films_data.
OfRecord(m) ==
    /\ m.location[1] # None /\ m.location[2] # None
    /\ \E r \in Range(films_data.rows) :
          m.location = <<r.Latitude, r.Longitude>>

\* C2: whatever the lookups return, every record find_coordinates returns,
\* and so every record that reaches count_distance_to_point, find_nearest and
\* the layers, has both coordinates, and they are the provider's; a record
\* with a failed lookup is excluded, and gets no default coordinate or
\* distance.
C2_OnlyResolvedRecords ==
    Resolved =>
        LET selected == Selected.rows
        IN
        /\ \A r \in Range(films_data.rows) :
              /\ r.Latitude # None /\ r.Longitude # None
              /\ Matched(r.idx)
              /\ Val(r.Latitude) =
                    Val(Answer(lookups, "Latitude", r.idx).location).latitude
              /\ Val(r.Longitude) =
                    Val(Answer(lookups, "Longitude", r.idx).location).longitude
              /\ "Distance" \in films_data.columns =>
                    r.Distance = Some(find_distance(Val(r.Latitude),
                        Val(r.Longitude), input.user_lan, input.user_lon))
        /\ \A s \in Range(selected) :
              (\E r \in Range(films_data.rows) : r.idx = s.idx) <=> Matched(s.idx)
        /\ Range(nearest_films.rows) \subseteq Range(films_data.rows)
        /\ \A m \in Range(layers.nearest) : OfRecord(m)
        /\ \A m \in Range(layers.film) : OfRecord(m)

\* main() has built its layers from two records of the year, one with a
\* latitude and no longitude, which is on no layer, and one with both.
C2_Witness ==
    /\ pc = "create_map"
    /\ Len(Selected.rows) = 2
    /\ \E s \in Range(Selected.rows) :
          /\ ~Failed(Answer(lookups, "Latitude", s.idx))
          /\ Failed(Answer(lookups, "Longitude", s.idx))
    /\ Len(films_data.rows) = 1
    /\ Len(layers.nearest) = 1
    /\ Len(layers.film) = 1

\* C7 as claimed: every two consecutive lookups sent to the provider are at
\* least min_delay_seconds apart.
C7_LookupsPaced ==
    last_gap # None => Val(last_gap) >= min_delay_seconds

\* C9 as claimed: resolving n records issues exactly one call of the provider
\* per record, n in all.
C9_OneCallPerRecord ==
    Resolved =>
        LET selected == Selected.rows
        IN  /\ Len(lookups) = Len(selected)
            /\ \A s \in Range(selected) :
                  Cardinality({k \in 1..Len(lookups) :
                                  lookups[k].row = s.idx}) = 1

\* C9 as amended: resolving n records issues exactly two calls of the
\* provider per record, 2n in all, one after another: the latitude lookup of
\* every record, in order, then the longitude lookup of every record, in
\* order, whatever the lookups return; no lookup is made again because it
\* failed.
C9_TwoCallsPerRecord ==
    /\ pc \in {"read_file", "loaded", "choose_year"} => lookups = <<>>
    /\ Resolving \/ Resolved =>
          LET selected == Selected.rows
              n == Len(selected)
          IN  /\ Len(lookups) <= 2 * n
              /\ \A k \in 1..Len(lookups) :
                    /\ lookups[k].column =
                          IF k <= n THEN "Latitude" ELSE "Longitude"
                    /\ lookups[k].row =
                          selected[IF k <= n THEN k ELSE k - n].idx
              /\ Resolved => Len(lookups) = 2 * n

\* find_coordinates has returned, given two records; the first lookup failed.
C9_Witness ==
    /\ pc = "count_distance"
    /\ Len(Selected.rows) = 2
    /\ Len(lookups) = 4
    /\ Failed(lookups[1].answer)

-----------------------------------------------------------------------------
(* Claims about find_nearest, under SpecNearest.                           *)

Min(a, b) == IF a < b THEN a ELSE b

\* C3: of n records with distances find_nearest returns min(10, n), all drawn
\* from the input, none of them farther than a record it did not return;
\* fewer than 10 records, or none, are no error.
C3_NearestTen ==
    pc = "nearest_found" =>
        LET given == Range(films_data.rows)
            found == Range(nearest_films.rows)
        IN  /\ Len(nearest_films.rows) = Min(10, Len(films_data.rows))
            /\ Cardinality(found) = Len(nearest_films.rows)
            /\ found \subseteq given
            /\ \A r \in found, x \in given \ found :
                  Val(r.Distance) <= Val(x.Distance)

\* find_nearest was given more than 10 records, and returned some that come
\* after a farther record, which it did not return.
C3_Witness ==
    /\ pc = "nearest_found"
    /\ Len(films_data.rows) > 10
    /\ Len(nearest_films.rows) = 10
    /\ \E r \in Range(nearest_films.rows),
          x \in Range(films_data.rows) \ Range(nearest_films.rows) :
          x.idx < r.idx /\ Val(r.Distance) < Val(x.Distance)

-----------------------------------------------------------------------------
(* Claims about the query operations, under SpecQuery.                     *)

Queries == {"choose_year", "count_distance_to_point", "find_nearest",
            "find_locations_of_film"}

\* C10 as claimed: each query operation is read-only: after the call the
\* collection passed in has the records, fields and values it had before, and
\* the result is a new collection. Stated of the calls given a record or
\* more, which return whatever the version of pandas.
C10_QueriesReadOnly ==
    call.op \in Queries /\ Len(call.before.rows) >= 1 =>
        /\ frames[call.arg] = call.before
        /\ call.result # call.arg

\* C10 as amended: choose_year, find_nearest and find_locations_of_film are
\* read-only: after the call the collection passed in has the records, fields
\* and values it had before, and the result is a new collection.
\* count_distance_to_point is not: when it returns, it has set the field
\* Distance of every record of the collection passed in, and it returns that
\* same collection; the records, their order and their other fields are as
\* before.
C10_ReadOnlyButDistance ==
    /\ call.op \in Queries \ {"count_distance_to_point"} =>
          /\ frames[call.arg] = call.before
          /\ call.result # call.arg
          /\ call.result = Len(frames)
    /\ call.op = "count_distance_to_point" /\ call.result # 0 =>
          /\ call.result = call.arg
          /\ frames[call.arg].columns = call.before.columns \cup {"Distance"}
          /\ Len(frames[call.arg].rows) = Len(call.before.rows)
          /\ \A k \in 1..Len(call.before.rows) :
                /\ frames[call.arg].rows[k].Distance # None
                /\ \A f \in DOMAIN call.before.rows[k] \ {"Distance"} :
                      frames[call.arg].rows[k][f] = call.before.rows[k][f]

\* The nearest query was made on the collection loaded first, of two records
\* or more: count_distance_to_point has changed it, and find_nearest then
\* returned its records in another order, as a new collection.
C10_Witness ==
    /\ call.op = "find_nearest"
    /\ call.arg = 1
    /\ Len(frames[1].rows) >= 2
    /\ "Distance" \in frames[1].columns
    /\ frames[call.result].rows # frames[1].rows
    /\ Len(frames[call.result].rows) = Len(frames[1].rows)

=============================================================================
